---- MODULE Spec2Model ----
(***************************************************************************)
(* Traceability (web/traceability): the key registry views, the            *)
(* transaction integrity check Transaction.verify_sign and the lineage     *)
(* view TransactionDetail, as state machines.                              *)
(*                                                                         *)
(*   SpecKeys     the key registry under NewKey, ModifyKey, ActivateKey,   *)
(*                DeactivateKey and RemoveKey                              *)
(*   SpecVerify   one stored transaction, rewritten field by field and     *)
(*                verified with verify_sign                                *)
(*   SpecLineage  one stored transaction and a link table, rendered by     *)
(*                TransactionDetail.get_context_data                       *)
(***************************************************************************)
EXTENDS Integers, Sequences, FiniteSets, TLC

VARIABLES
  keys,          \* the keys table: a set of Key rows
  response,      \* what the last key view answered
  everApproved,  \* history: identifiers of keys seen with status active/inactive
  tx,            \* the stored Transaction under inspection
  vresult,       \* what verify_sign last returned for tx ("stale" once tx changed)
  base,          \* history: {the transaction verify_sign accepted, of which tx is a rewrite}
  links,         \* the t_inputs table: a set of TransactionInput rows
  context        \* what TransactionDetail.get_context_data last built for tx

keyVars == <<keys, response, everApproved>>

txVars == <<tx, vresult, base>>

viewVars == <<links, context>>

vars == <<keys, response, everApproved, tx, vresult, base, links, context>>

\* SHA256.new(text.encode('utf-8')).hexdigest(): a collision-free digest,
\* kept symbolic (the digest of x is the pair <<"sha256", x>>).
SHA256_hexdigest(text) == <<"sha256", text>>

\* Key.objects.filter(hash = h): the rows with that primary key.
KeyRows(table, h) == {k \in table : k.hash = h}

\* Key.objects.get(hash = h), when it exists.
KeyGet(table, h) == CHOOSE k \in table : k.hash = h

\* What a key view answers: the view, the identifier it was asked about, how
\* it ended (a redirect, or the exception that left it) and the level of the
\* message it added.
Reply(op, h, outcome, level) ==
  [op |-> op, hash |-> h, outcome |-> outcome, level |-> level]

NoReply == Reply("none", SHA256_hexdigest(""), "none", "none")

(***************************************************************************)
(* JSON values. A mapping is a sequence of <<key, value>> pairs in         *)
(* insertion order (a Python dict); every other value is tagged.           *)
(***************************************************************************)

Num(n) == <<"num", n>>

Str(s) == <<"str", s>>

Null == <<"null", 0>>

List(items) == <<"list", items>>

Dict(pairs) == <<"dict", pairs>>

\* A hex digest used as a JSON string.
Hex(h) == <<"hex", h>>

\* Python's order on the key strings that occur, ascending.
StringOrder == <<"meta", "new_id", "product", "product_in", "product_out", "x", "y">>

StrRank(k) == CHOOSE i \in 1..Len(StringOrder) : StringOrder[i] = k

\* a < b on strings
StrLess(a, b) == StrRank(a) < StrRank(b)

RECURSIVE InsertSorted(_, _)
InsertSorted(pair, seq) ==
  IF seq = <<>> THEN <<pair>>
  ELSE IF StrLess(pair[1], Head(seq)[1]) THEN <<pair>> \o seq
  ELSE <<Head(seq)>> \o InsertSorted(pair, Tail(seq))

\* sorted(d.items()): the pairs of one mapping ordered by key; the values are
\* left as they are.
RECURSIVE sorted(_)
sorted(pairs) ==
  IF pairs = <<>> THEN <<>> ELSE InsertSorted(Head(pairs), sorted(Tail(pairs)))

\* json.dumps(v, separators = (',', ':')) as a sequence of tokens; a mapping
\* is written in the order its pairs are held.
RECURSIVE json_dumps(_)
RECURSIVE json_items(_)
RECURSIVE json_pairs(_)
json_dumps(v) ==
  CASE v[1] = "num"  -> <<ToString(v[2])>>
    [] v[1] = "null" -> <<"null">>
    [] v[1] = "str"  -> <<"\"", v[2], "\"">>
    [] v[1] = "hex"  -> <<"\"">> \o v[2] \o <<"\"">>
    [] v[1] = "list" -> <<"[">> \o json_items(v[2]) \o <<"]">>
    [] v[1] = "dict" -> <<"{">> \o json_pairs(v[2]) \o <<"}">>

json_items(items) ==
  IF items = <<>> THEN <<>>
  ELSE json_dumps(Head(items))
         \o (IF Len(items) > 1 THEN <<",">> \o json_items(Tail(items)) ELSE <<>>)

json_pairs(pairs) ==
  IF pairs = <<>> THEN <<>>
  ELSE <<"\"", Head(pairs)[1], "\"", ":">> \o json_dumps(Head(pairs)[2])
         \o (IF Len(pairs) > 1 THEN <<",">> \o json_pairs(Tail(pairs)) ELSE <<>>)

(***************************************************************************)
(* Hex text.                                                               *)
(***************************************************************************)

LowerHex == <<"0", "1", "2", "3", "4", "5", "6", "7", "8", "9", "a", "b", "c", "d", "e", "f">>

UpperHex == <<"0", "1", "2", "3", "4", "5", "6", "7", "8", "9", "A", "B", "C", "D", "E", "F">>

\* The value of one hex digit, either case; -1 for any other character.
HexValue(c) ==
  IF \E i \in 1..16 : LowerHex[i] = c THEN (CHOOSE i \in 1..16 : LowerHex[i] = c) - 1
  ELSE IF \E i \in 1..16 : UpperHex[i] = c THEN (CHOOSE i \in 1..16 : UpperHex[i] = c) - 1
  ELSE -1

\* bytes.fromhex(text): ValueError on an odd number of digits or a character
\* that is no hex digit.
bytes_fromhex(text) ==
  IF Len(text) % 2 # 0 \/ \E i \in 1..Len(text) : HexValue(text[i]) < 0
    THEN [raised |-> TRUE, bytes |-> <<>>]
    ELSE [raised |-> FALSE,
          bytes |-> [i \in 1..(Len(text) \div 2) |->
                       16 * HexValue(text[2 * i - 1]) + HexValue(text[2 * i])]]

\* bytes.hex(): two lower-case digits per byte.
RECURSIVE hexlify(_)
hexlify(bytes) ==
  IF bytes = <<>> THEN <<>>
  ELSE <<LowerHex[(Head(bytes) \div 16) + 1], LowerHex[(Head(bytes) % 16) + 1]>>
         \o hexlify(Tail(bytes))

(***************************************************************************)
(* Stored transactions: the values the fields take here.                   *)
(***************************************************************************)

\* A null foreign key.
NULL == <<"NULL">>

ProductList(code, value) == List(<<List(<<Str(code), value>>)>>)

\* {"product": [["P1", 7]], "new_id": "N1"}
PayloadA == <<<<"product", ProductList("P1", Num(7))>>, <<"new_id", Str("N1")>>>>

\* The same mapping, its keys inserted the other way round.
PayloadA2 == <<<<"new_id", Str("N1")>>, <<"product", ProductList("P1", Num(7))>>>>

\* {"product": [["P1", 7]], "meta": {"x": 1, "y": 2}}
PayloadB == <<<<"product", ProductList("P1", Num(7))>>,
              <<"meta", Dict(<<<<"x", Num(1)>>, <<"y", Num(2)>>>>)>>>>

\* The same mapping, the keys of the nested one inserted the other way round.
PayloadB2 == <<<<"product", ProductList("P1", Num(7))>>,
               <<"meta", Dict(<<<<"y", Num(2)>>, <<"x", Num(1)>>>>)>>>>

\* {"product": [["P1", 8]], "new_id": "N1"}
PayloadC == <<<<"product", ProductList("P1", Num(8))>>, <<"new_id", Str("N1")>>>>

VerifyPayloads == {PayloadA, PayloadA2, PayloadB, PayloadB2, PayloadC}

\* One instant, written two ways.
Timestamps == {"2019-01-01T00:00:00Z", "2019-01-01T00:00:00.000Z"}

KeyRow(public_key, status) ==
  [hash |-> SHA256_hexdigest(public_key), public_key |-> public_key,
   current_status |-> status, name |-> "n1", description |-> "d1"]

\* The registry the transactions refer to: two RSA keys, and one row whose
\* public-key text is no key at all.
KeyFixture == {KeyRow("pemA", "active"), KeyRow("pemB", "active"), KeyRow("junk", "active")}

Transmitters == {SHA256_hexdigest("pemA"), SHA256_hexdigest("junk")}

Receivers == {NULL, SHA256_hexdigest("pemB")}

NoQuantities == <<>>

Pair(code, value) == List(<<Str(code), value>>)

\* {"product": [["P1", null], ["P2", 7]]}
Single1 == <<<<"product", List(<<Pair("P1", Null), Pair("P2", Num(7))>>)>>>>

\* {"product": [["P1", null]], "new_id": "N1"}
Single2 == <<<<"product", List(<<Pair("P1", Null)>>)>>, <<"new_id", Str("N1")>>>>

\* {"product": [["P1", "ID9"], ["P2", null]]}
Single3 == <<<<"product", List(<<Pair("P1", Str("ID9")), Pair("P2", Null)>>)>>>>

\* {"product_in": [["P1", null]], "product_out": [["P2", null]]}
Dual1 == <<<<"product_in", List(<<Pair("P1", Null)>>)>>,
           <<"product_out", List(<<Pair("P2", Null)>>)>>>>

\* {"product_in": [["P1", 3], ["P2", null]], "product_out": [["P1", 4]], "new_id": "N1"}
Dual2 == <<<<"product_in", List(<<Pair("P1", Num(3)), Pair("P2", Null)>>)>>,
           <<"product_out", List(<<Pair("P1", Num(4))>>)>>, <<"new_id", Str("N1")>>>>

\* {"product_in": [["P1", 3]], "product_out": [["P2", 5], ["P1", 6]]}
Dual3 == <<<<"product_in", List(<<Pair("P1", Num(3))>>)>>,
           <<"product_out", List(<<Pair("P2", Num(5)), Pair("P1", Num(6))>>)>>>>

\* {"new_id": "N1"}: neither shape
Shapeless == <<<<"new_id", Str("N1")>>>>

LineagePayloads == {Single1, Single2, Single3, Dual1, Dual2, Dual3, Shapeless}

\* The quantity-resolution mapping of a transaction.
QuantityMaps == { <<>>,
                  <<<<"P1", Num(42)>>>>,
                  <<<<"P1", Num(42)>>, <<"P2", Num(43)>>>> }

(***************************************************************************)
(* models.Transaction: the signable form and the signature scheme.         *)
(***************************************************************************)

\* Lines 58-63 with the timestamp left out of the signable fields.
serialized_transaction_NoTimestamp(t) ==
  json_dumps(Dict(
    <<<<"type", Num(t.type)>>, <<"mode", Num(t.mode)>>,
      <<"transmitter", Hex(t.transmitter)>>>>
    \o (IF t.receiver # NULL THEN <<<<"receiver", Hex(t.receiver)>>>> ELSE <<>>)
    \o <<<<"data", Dict(sorted(t.transaction_data))>>>>))

\* verify_sign, lines 57-63: the compact JSON of the ordered fields, the
\* payload with its own keys sorted.
serialized_transaction(t) ==
  json_dumps(Dict(
    <<<<"type", Num(t.type)>>, <<"mode", Num(t.mode)>>,
      <<"transmitter", Hex(t.transmitter)>>>>
    \o (IF t.receiver # NULL THEN <<<<"receiver", Hex(t.receiver)>>>> ELSE <<>>)
    \o <<<<"timestamp", Str(t.raw_client_timestamp)>>,
         <<"data", Dict(sorted(t.transaction_data))>>>>))

\* verify_sign, line 64
calculated_hash(t) == SHA256_hexdigest(serialized_transaction(t))

\* The modulus size in bytes of the registered RSA keys.
SigLen == 2

\* RSA.importKey(text): the texts that parse as a public key.
ParsableKeys == {"pemA", "pemB"}

KeyByte(public_key) == IF public_key = "pemA" THEN 161 ELSE 178

\* A transaction record with the content given, not yet identified or signed.
Unsigned(transmitter, receiver, timestamp, data, quantities) ==
  [hash |-> SHA256_hexdigest(<<>>), type |-> 1, mode |-> 0,
   transmitter |-> transmitter, receiver |-> receiver,
   raw_client_timestamp |-> timestamp, transaction_data |-> data,
   sign |-> <<>>, updated_quantity |-> quantities]

\* The digests of all the contents a transaction takes here.
Digests ==
  {calculated_hash(Unsigned(tr, rc, ts, d, NoQuantities)) :
     tr \in Transmitters, rc \in Receivers, ts \in Timestamps,
     d \in VerifyPayloads \cup LineagePayloads}

RECURSIVE Enumerate(_)
Enumerate(S) ==
  IF S = {} THEN <<>>
  ELSE LET x == CHOOSE x \in S : TRUE IN <<x>> \o Enumerate(S \ {x})

DigestSeq == Enumerate(Digests)

\* A byte for a digest, different for different digests (0 for one that is
\* the digest of no content above).
DigestByte(digest) ==
  IF \E i \in 1..Len(DigestSeq) : DigestSeq[i] = digest
    THEN CHOOSE i \in 1..Len(DigestSeq) : DigestSeq[i] = digest
    ELSE 0

\* The PKCS#1 v1.5 signature of a digest under the private key of public_key:
\* one fixed byte string of SigLen bytes per key and digest (the scheme is
\* deterministic), different for different digests. The bytes are a stand-in
\* for the RSA arithmetic.
RSA_sign(public_key, digest) ==
  [i \in 1..SigLen |->
     IF i = 1 THEN KeyByte(public_key)
     ELSE IF i = 2 THEN DigestByte(digest)
     ELSE 0]

\* PKCS1_v1_5.new(key).verify(digest, signature)
PKCS1_v1_5_verify(public_key, digest, signature) ==
  /\ Len(signature) = SigLen
  /\ signature = RSA_sign(public_key, digest)

(***************************************************************************)
(* Transaction.verify_sign.                                                *)
(***************************************************************************)

Returned(outcome, consulted, digest) ==
  [outcome |-> outcome, consulted |-> consulted, calculated |-> digest]

\* verify_sign without lines 66-67.
verify_sign_NoHashCheck(t, table) ==
  LET digest == calculated_hash(t)
      public_key == KeyGet(table, t.transmitter).public_key
      decoded == bytes_fromhex(t.sign)
  IN  IF public_key \notin ParsableKeys THEN Returned("ValueError", FALSE, digest)
      ELSE IF decoded.raised THEN Returned("ValueError", TRUE, digest)
      ELSE IF PKCS1_v1_5_verify(public_key, digest, decoded.bytes)
        THEN Returned("True", TRUE, digest)
        ELSE Returned("False", TRUE, digest)

\* Transaction.verify_sign: what it returns or raises, whether it read the
\* stored signature, and the digest it computed.
verify_sign(t, table) ==
  LET digest == calculated_hash(t)
      public_key == KeyGet(table, t.transmitter).public_key
      decoded == bytes_fromhex(t.sign)
  IN  IF t.hash # digest THEN Returned("False", FALSE, digest)
      ELSE IF public_key \notin ParsableKeys THEN Returned("ValueError", FALSE, digest)
      ELSE IF decoded.raised THEN Returned("ValueError", TRUE, digest)
      ELSE IF PKCS1_v1_5_verify(public_key, digest, decoded.bytes)
        THEN Returned("True", TRUE, digest)
        ELSE Returned("False", TRUE, digest)

Stale == Returned("stale", FALSE, SHA256_hexdigest(<<>>))

\* The context: how get_context_data ended, context['sign'], and the product
\* lists it holds by name.
Context(outcome, sign, lists) == [outcome |-> outcome, sign |-> sign, lists |-> lists]

NoContext == Context("none", "none", <<>>)

\* A transaction as its transmitter submits it: the identifier is the digest
\* of the signable form and the signature is made over that digest.
Ingest(transmitter, receiver, timestamp, data, quantities) ==
  LET t == Unsigned(transmitter, receiver, timestamp, data, quantities)
      digest == calculated_hash(t)
  IN  [t EXCEPT !.hash = digest,
                !.sign = hexlify(RSA_sign(KeyGet(KeyFixture, transmitter).public_key, digest))]

NoTransaction ==
  Ingest(SHA256_hexdigest("pemA"), NULL, "2019-01-01T00:00:00Z", PayloadA, NoQuantities)

\* The text with its letters in upper case.
UpperCase(text) ==
  [i \in 1..Len(text) |-> IF HexValue(text[i]) < 0 THEN text[i]
                          ELSE UpperHex[HexValue(text[i]) + 1]]

\* Signature texts to store over t: the transmitter's signature of t's
\* content, and that text rewritten.
SignChoices(t) ==
  LET bytes == RSA_sign(KeyGet(KeyFixture, t.transmitter).public_key, calculated_hash(t))
      good == hexlify(bytes)
  IN  { good,
        UpperCase(good),
        <<"g">> \o Tail(good),
        Tail(good),
        good \o <<"0", "0">>,
        hexlify([bytes EXCEPT ![SigLen] = (@ + 1) % 256]) }

HashChoices(t) == {calculated_hash(t), SHA256_hexdigest(<<"bogus">>)}

TxFields == {"hash", "raw_client_timestamp", "transaction_data", "sign"}

\* The logical content of a JSON value: mappings compare without regard to
\* the order of their keys, at every depth (Python's ==).
RECURSIVE Logical(_)
Logical(v) ==
  CASE v[1] = "dict" -> Dict(sorted([i \in 1..Len(v[2]) |-> <<v[2][i][1], Logical(v[2][i][2])>>]))
    [] v[1] = "list" -> List([i \in 1..Len(v[2]) |-> Logical(v[2][i])])
    [] OTHER -> v

FieldDiffers(a, b, f) ==
  IF f = "transaction_data" THEN Logical(Dict(a[f])) # Logical(Dict(b[f])) ELSE a[f] # b[f]

\* The stored fields in which two transactions differ.
DiffFields(a, b) == {f \in TxFields : FieldDiffers(a, b, f)}

\* The last transaction verify_sign accepted stays on record while the stored
\* one differs from it in at most one field.
KeepBase(t) == {b \in base : Cardinality(DiffFields(t, b)) <= 1}

\* A write to one stored field of the transaction.
SetField(f, v) ==
  /\ v # tx[f]
  /\ tx' = [tx EXCEPT ![f] = v]
  /\ vresult' = Stale
  /\ base' = KeepBase(tx')
  /\ UNCHANGED <<keyVars, viewVars>>

SetPayload(data) == SetField("transaction_data", data)

SetTimestamp(timestamp) == SetField("raw_client_timestamp", timestamp)

SetSign(sign) == SetField("sign", sign)

SetHash(h) == SetField("hash", h)

\* context['sign'] = obj.verify_sign()
VerifyTransaction ==
  /\ vresult = Stale
  /\ vresult' = verify_sign(tx, keys)
  /\ base' = IF vresult'.outcome = "True" /\ base = {} THEN {tx} ELSE base
  /\ UNCHANGED <<tx, keyVars, viewVars>>

InitVerify ==
  /\ keys = KeyFixture
  /\ response = NoReply
  /\ everApproved = {}
  /\ \E tr \in Transmitters, rc \in Receivers, ts \in Timestamps, d \in VerifyPayloads :
       tx = Ingest(tr, rc, ts, d, NoQuantities)
  /\ vresult = Stale
  /\ base = {}
  /\ links = {}
  /\ context = NoContext

NextVerify ==
  \/ VerifyTransaction
  \/ \E d \in VerifyPayloads : SetPayload(d)
  \/ \E ts \in Timestamps : SetTimestamp(ts)
  \/ \E sg \in SignChoices(tx) : SetSign(sg)
  \/ \E h \in HashChoices(tx) : SetHash(h)

SpecVerify == InitVerify /\ [][NextVerify]_vars

(***************************************************************************)
(* Key registry: models.Key and the views that write it.                   *)
(***************************************************************************)

\* Public-key texts a form may submit.
PublicKeyTexts == {"pemA", "pemB"}

Names == {"n1", "n2"}

Descriptions == {"d1"}

\* Key.status_choices
status_choices == {"active", "inactive", "new"}

\* The hash a URL may carry: the identifier of any text above, or of none.
UrlHashes == {SHA256_hexdigest(t) : t \in PublicKeyTexts \cup {"pemX"}}

\* Key.save without line 22: the row is stored under whatever identifier the
\* instance already carries.
Key_save_KeepsHash(row, table) ==
  {k \in table : k.hash # row.hash} \cup {row}

\* Key.save: recompute the identifier from the public key, then Model.save,
\* which updates the row holding that primary key or inserts one.
Key_save(row, table) ==
  LET r == [row EXCEPT !.hash = SHA256_hexdigest(row.public_key)]
  IN  {k \in table : k.hash # r.hash} \cup {r}

\* The keys that are, in this table, past approval.
Approved(table) == {k.hash : k \in {r \in table : r.current_status # "new"}}

\* views.ActivateKey. ObjectDoesNotExist is not a name views.py binds, so the
\* except clause of a missing key raises NameError instead of catching.
ActivateKey(h) ==
  /\ IF KeyRows(keys, h) # {}
       THEN /\ keys' = Key_save([KeyGet(keys, h) EXCEPT !.current_status = "active"], keys)
            /\ response' = Reply("ActivateKey", h, "redirect", "SUCCESS")
       ELSE /\ keys' = keys
            /\ response' = Reply("ActivateKey", h, "NameError", "none")
  /\ everApproved' = everApproved \cup Approved(keys')
  /\ UNCHANGED <<txVars, viewVars>>

\* views.DeactivateKey
DeactivateKey(h) ==
  /\ IF KeyRows(keys, h) # {}
       THEN /\ keys' = Key_save([KeyGet(keys, h) EXCEPT !.current_status = "inactive"], keys)
            /\ response' = Reply("DeactivateKey", h, "redirect", "SUCCESS")
       ELSE /\ keys' = keys
            /\ response' = Reply("DeactivateKey", h, "NameError", "none")
  /\ everApproved' = everApproved \cup Approved(keys')
  /\ UNCHANGED <<txVars, viewVars>>

\* views.RemoveKey
RemoveKey(h) ==
  /\ IF KeyRows(keys, h) # {}
       THEN IF KeyGet(keys, h).current_status # "new"
              THEN /\ keys' = keys
                   /\ response' = Reply("RemoveKey", h, "redirect", "ERROR")
              ELSE /\ keys' = keys \ KeyRows(keys, h)
                   /\ response' = Reply("RemoveKey", h, "redirect", "SUCCESS")
       ELSE /\ keys' = keys
            /\ response' = Reply("RemoveKey", h, "NameError", "none")
  /\ everApproved' = everApproved \cup Approved(keys')
  /\ UNCHANGED <<txVars, viewVars>>

\* views.NewKey (CreateView over name, public_key, current_status,
\* description): a fresh instance, saved by Key.save.
NewKey(name, public_key, current_status, description) ==
  /\ keys' = Key_save([hash |-> SHA256_hexdigest(""), public_key |-> public_key,
                       current_status |-> current_status, name |-> name,
                       description |-> description], keys)
  /\ response' = Reply("NewKey", SHA256_hexdigest(public_key), "redirect", "SUCCESS")
  /\ everApproved' = everApproved \cup Approved(keys')
  /\ UNCHANGED <<txVars, viewVars>>

\* views.ModifyKey (UpdateView over name, description, looked up by hash).
ModifyKey(h, name, description) ==
  /\ IF KeyRows(keys, h) # {}
       THEN /\ keys' = Key_save([KeyGet(keys, h) EXCEPT !.name = name,
                                                      !.description = description], keys)
            /\ response' = Reply("ModifyKey", h, "redirect", "SUCCESS")
       ELSE /\ keys' = keys
            /\ response' = Reply("ModifyKey", h, "Http404", "none")
  /\ everApproved' = everApproved \cup Approved(keys')
  /\ UNCHANGED <<txVars, viewVars>>

InitKeys ==
  /\ keys = {}
  /\ response = NoReply
  /\ everApproved = {}
  /\ tx = NoTransaction
  /\ vresult = Stale
  /\ base = {}
  /\ links = {}
  /\ context = NoContext

NextKeys ==
  \/ \E h \in UrlHashes : ActivateKey(h)
  \/ \E h \in UrlHashes : DeactivateKey(h)
  \/ \E h \in UrlHashes : RemoveKey(h)
  \/ \E n \in Names, t \in PublicKeyTexts, s \in status_choices, d \in Descriptions :
       NewKey(n, t, s, d)
  \/ \E h \in UrlHashes, n \in Names, d \in Descriptions : ModifyKey(h, n, d)

SpecKeys == InitKeys /\ [][NextKeys]_vars

(***************************************************************************)
(* views.TransactionDetail: the lineage view of one transaction.           *)
(***************************************************************************)

\* k in d, d[k] for a mapping held as pairs.
Has(pairs, k) == \E i \in 1..Len(pairs) : pairs[i][1] = k

Get(pairs, k) == pairs[CHOOSE i \in 1..Len(pairs) : pairs[i][1] = k][2]

\* Python truth of a JSON value (if newid:).
Truthy(v) == v # Null /\ v # Str("") /\ v # Num(0)

\* TransactionDetail.make_product_list: one entry per [code, value] pair.
make_product_list(p_list, newid) ==
  [i \in 1..Len(p_list) |->
     LET p == p_list[i][2]
     IN  [product |-> p[1][2]] @@
           (IF Truthy(newid) THEN [newid |-> newid]
            ELSE IF p[2][1] = "str" THEN [id |-> p[2][2]]
            ELSE [quantity |-> p[2]])]

NeedsQuantity(p) == "quantity" \in DOMAIN p /\ p.quantity = Null

\* TransactionDetail.set_quantity: KeyError when the mapping has no amount
\* for a product whose quantity is null.
set_quantity(p_list, updated_quantity) ==
  IF \E i \in 1..Len(p_list) : NeedsQuantity(p_list[i]) /\ ~Has(updated_quantity, p_list[i].product)
    THEN [raised |-> TRUE, list |-> p_list]
    ELSE [raised |-> FALSE,
          list |-> [i \in 1..Len(p_list) |->
                      IF NeedsQuantity(p_list[i])
                        THEN [p_list[i] EXCEPT !.quantity = Get(updated_quantity, p_list[i].product)]
                        ELSE p_list[i]]]

\* set_pre_transactions filtering on the transaction alone.
set_pre_transactions_AnyProduct(p_list, hash, table) ==
  [i \in 1..Len(p_list) |->
     p_list[i] @@ [pre |-> {l.input : l \in {r \in table : r.t_hash = hash}}]]

\* TransactionDetail.set_pre_transactions
set_pre_transactions(p_list, hash, table) ==
  [i \in 1..Len(p_list) |->
     p_list[i] @@
       [pre |-> {l.input : l \in {r \in table : r.t_hash = hash /\ r.product = p_list[i].product}}]]

\* TransactionDetail.set_post_transactions
set_post_transactions(p_list, hash, table) ==
  [i \in 1..Len(p_list) |->
     p_list[i] @@
       [post |-> {l.t_hash : l \in {r \in table : r.input = hash /\ r.product = p_list[i].product}}]]

\* TransactionDetail.get_context_data for the object obj.
get_context_data(obj, keytable, table) ==
  LET sign == verify_sign(obj, keytable).outcome
      data == obj.transaction_data
      newid == IF Has(data, "new_id") THEN Get(data, "new_id") ELSE Null
  IN  IF sign = "ValueError" THEN Context("ValueError", "none", <<>>)
      ELSE IF Has(data, "product") THEN
        LET made == make_product_list(Get(data, "product")[2], newid)
            resolved == set_quantity(made, obj.updated_quantity)
        IN  IF resolved.raised THEN Context("KeyError", sign, <<>>)
            ELSE Context("rendered", sign,
                   [product |-> set_post_transactions(
                                  set_pre_transactions(resolved.list, obj.hash, table),
                                  obj.hash, table)])
      ELSE IF ~Has(data, "product_in") \/ ~Has(data, "product_out")
        THEN Context("KeyError", sign, <<>>)
      ELSE
        LET made_in == make_product_list(Get(data, "product_in")[2], Null)
            made_out == make_product_list(Get(data, "product_out")[2], newid)
            resolved == set_quantity(made_in, obj.updated_quantity)
        IN  IF resolved.raised THEN Context("KeyError", sign, <<>>)
            ELSE Context("rendered", sign,
                   [product_in |-> set_pre_transactions(resolved.list, obj.hash, table),
                    product_out |-> set_post_transactions(made_out, obj.hash, table)])

Products == {"P1", "P2"}

\* The transactions of the store other than the one shown.
OtherTransactions == {SHA256_hexdigest(<<"txA">>), SHA256_hexdigest(<<"txC">>)}

\* At most this many rows in the link table.
MaxLinks == 3

\* Every row the link table may hold around transaction hash.
LinkRows(hash) ==
  {r \in [t_hash : OtherTransactions \cup {hash}, input : OtherTransactions \cup {hash},
          product : Products] : r.t_hash # r.input}

LinkTables(hash) == {t \in SUBSET LinkRows(hash) : Cardinality(t) <= MaxLinks}

\* TransactionDetail.get: build the context of the stored transaction.
TransactionDetail ==
  /\ context = NoContext
  /\ context' = get_context_data(tx, keys, links)
  /\ UNCHANGED <<keyVars, txVars, links>>

InitLineage ==
  /\ keys = KeyFixture
  /\ response = NoReply
  /\ everApproved = {}
  /\ \E d \in LineagePayloads, q \in QuantityMaps, malformed \in BOOLEAN :
       LET t == Ingest(SHA256_hexdigest("pemA"), NULL, "2019-01-01T00:00:00Z", d, q)
       IN  tx = IF malformed THEN [t EXCEPT !.sign = <<"g">> \o Tail(t.sign)] ELSE t
  /\ vresult = Stale
  /\ base = {}
  /\ links \in LinkTables(tx.hash)
  /\ context = NoContext

NextLineage == TransactionDetail

SpecLineage == InitLineage /\ [][NextLineage]_vars

(***************************************************************************)
(* Claims about the lineage view (checked under SpecLineage).              *)
(***************************************************************************)

\* The lists whose entries are given predecessors, and successors.
PreLists == {"product", "product_in"}

PostLists == {"product", "product_out"}

Entries(name) == {context.lists[name][i] : i \in 1..Len(context.lists[name])}

\* C8: each entry of the single-product list (or of product_in) has as
\* predecessors exactly the inputs of the link rows owned by this transaction
\* for the entry's product, and each entry of the single-product list (or of
\* product_out) has as successors exactly the owners of the link rows whose
\* input is this transaction for the entry's product.
C8_LineageCorrect ==
  context.outcome = "rendered" =>
    /\ \A name \in PreLists \cap DOMAIN context.lists : \A e \in Entries(name) :
         \A h \in OtherTransactions \cup {tx.hash} :
           h \in e.pre <=> [t_hash |-> tx.hash, input |-> h, product |-> e.product] \in links
    /\ \A name \in PostLists \cap DOMAIN context.lists : \A e \in Entries(name) :
         \A h \in OtherTransactions \cup {tx.hash} :
           h \in e.post <=> [t_hash |-> h, input |-> tx.hash, product |-> e.product] \in links

\* A rendered entry with a predecessor and a successor, beside a link of this
\* transaction for another product.
C8_Witness ==
  /\ context.outcome = "rendered"
  /\ \E name \in DOMAIN context.lists : \E e \in Entries(name) :
       /\ "pre" \in DOMAIN e /\ "post" \in DOMAIN e
       /\ e.pre # {} /\ e.post # {}
       /\ \E l \in links : l.t_hash = tx.hash /\ l.product # e.product

\* The [code, value] pairs of the payload list a context list was built from.
PayloadPairs(name) == Get(tx.transaction_data, name)[2]

\* C9: in every list of the view (product, product_in, product_out) an entry
\* whose payload quantity was null carries the amount the quantity-resolution
\* mapping holds for its product, and an entry whose payload quantity was a
\* number carries that number.
C9_NullQuantityResolved ==
  context.outcome = "rendered" =>
    \A name \in DOMAIN context.lists : \A i \in 1..Len(context.lists[name]) :
      LET e == context.lists[name][i]
          v == PayloadPairs(name)[i][2][2]
      IN  "quantity" \in DOMAIN e =>
            /\ (v = Null /\ Has(tx.updated_quantity, e.product)) =>
                 e.quantity = Get(tx.updated_quantity, e.product)
            /\ v[1] = "num" => e.quantity = v

(***************************************************************************)
(* Claims about verify_sign (checked under SpecVerify).                    *)
(***************************************************************************)

Quoted(text) == <<"\"", text, "\"">>

\* The canonical encoding of the stored fields, written out: type, mode,
\* transmitter identifier, receiver identifier when present, raw client
\* timestamp, key-sorted payload.
SignableEncoding(t) ==
  <<"{">> \o Quoted("type") \o <<":", ToString(t.type), ",">>
    \o Quoted("mode") \o <<":", ToString(t.mode), ",">>
    \o Quoted("transmitter") \o <<":", "\"">> \o t.transmitter \o <<"\"", ",">>
    \o (IF t.receiver = NULL THEN <<>>
        ELSE Quoted("receiver") \o <<":", "\"">> \o t.receiver \o <<"\"", ",">>)
    \o Quoted("timestamp") \o <<":">> \o Quoted(t.raw_client_timestamp) \o <<",">>
    \o Quoted("data") \o <<":">> \o json_dumps(Dict(sorted(t.transaction_data)))
    \o <<"}">>

TransmitterKey(t) == KeyGet(keys, t.transmitter).public_key

\* The stored signature text is a valid signature of the digest under the
\* transmitter's public key.
ValidSignature(t, digest) ==
  /\ TransmitterKey(t) \in ParsableKeys
  /\ ~bytes_fromhex(t.sign).raised
  /\ PKCS1_v1_5_verify(TransmitterKey(t), digest, bytes_fromhex(t.sign).bytes)

\* C1: verify_sign returns true exactly when the stored identifier equals the
\* hash of the canonical encoding of the stored fields and the stored
\* signature is valid for that digest under the transmitter's key; when the
\* identifier does not match, the result is false and the signature is never
\* read.
C1_AuthenticIffHashAndSignature ==
  vresult # Stale =>
    LET digest == SHA256_hexdigest(SignableEncoding(tx))
    IN  /\ vresult.outcome = "True" <=> (tx.hash = digest /\ ValidSignature(tx, digest))
        /\ tx.hash # digest => (vresult.outcome = "False" /\ ~vresult.consulted)

\* verify_sign accepted a transaction that names a receiver and whose payload
\* keys were not inserted in sorted order.
C1_Witness ==
  /\ vresult.outcome = "True"
  /\ tx.receiver # NULL
  /\ tx.transaction_data = PayloadA

TamperFields == {"transaction_data", "raw_client_timestamp", "sign"}

ContentFields == {"transaction_data", "raw_client_timestamp"}

\* C2 as stated: from a transaction verify_sign accepted, a change of the
\* payload, of the raw timestamp or of the stored signature (and of nothing
\* else) makes verification fail, and for a payload or timestamp change the
\* failure is a hash mismatch.
C2_TamperDetection ==
  \A b \in base :
    (vresult # Stale /\ Cardinality(DiffFields(tx, b)) = 1 /\ DiffFields(tx, b) \subseteq TamperFields) =>
      /\ vresult.outcome # "True"
      /\ DiffFields(tx, b) \subseteq ContentFields =>
           (tx.hash # vresult.calculated /\ vresult.outcome = "False")

\* C2 amended: the same, for a change of the stored signature that changes
\* what the text decodes to (other bytes, or no bytes at all).
C2_TamperDetectionDecoded ==
  \A b \in base :
    (/\ vresult # Stale
     /\ Cardinality(DiffFields(tx, b)) = 1
     /\ DiffFields(tx, b) \subseteq TamperFields
     /\ DiffFields(tx, b) = {"sign"} => bytes_fromhex(tx.sign) # bytes_fromhex(b.sign)) =>
      /\ vresult.outcome # "True"
      /\ DiffFields(tx, b) \subseteq ContentFields =>
           (tx.hash # vresult.calculated /\ vresult.outcome = "False")

\* An accepted transaction whose signature text was then replaced by hex of
\* the right length for other bytes: verify_sign read it and returned false.
C2_Witness ==
  \E b \in base :
    /\ DiffFields(tx, b) = {"sign"}
    /\ ~bytes_fromhex(tx.sign).raised
    /\ Len(bytes_fromhex(tx.sign).bytes) = SigLen
    /\ bytes_fromhex(tx.sign) # bytes_fromhex(b.sign)
    /\ vresult.outcome = "False" /\ vresult.consulted

\* Two transactions have the same logical content.
SameContent(a, b) ==
  /\ \A f \in {"type", "mode", "transmitter", "receiver", "raw_client_timestamp"} : a[f] = b[f]
  /\ Logical(Dict(a.transaction_data)) = Logical(Dict(b.transaction_data))

\* C3: two transactions with the same logical content, whose payload
\* mappings differ only in the order their keys were inserted (at the top
\* level or nested), get the same serialization and so the same hash.
C3_CanonicalDeterminism ==
  \A b \in base :
    (vresult # Stale /\ SameContent(tx, b)) => vresult.calculated = b.hash

\* The signature text is malformed: no hex, an odd number of digits, or bytes
\* of the wrong size.
Malformed(text) ==
  \/ bytes_fromhex(text).raised
  \/ Len(bytes_fromhex(text).bytes) # SigLen

\* C4: for a transaction whose identifier matches its content and whose stored
\* signature is malformed, verify_sign ends with the negative result (false)
\* and raises nothing.
C4_MalformedSignatureIsInvalid ==
  (/\ vresult # Stale
   /\ tx.hash = vresult.calculated
   /\ TransmitterKey(tx) \in ParsableKeys
   /\ Malformed(tx.sign)) => vresult.outcome = "False"

(***************************************************************************)
(* Claims about the key registry (checked under SpecKeys).                 *)
(***************************************************************************)

\* The status of the key with identifier h in a table, "absent" when none.
StatusOf(table, h) ==
  IF KeyRows(table, h) = {} THEN "absent" ELSE KeyGet(table, h).current_status

\* C5: RemoveKey deletes the key when its status is 'new'; when the status is
\* 'active' or 'inactive', or no key has that identifier, the registry is
\* unchanged and an error message is reported.
C5_RemoveKeyOnlyNew ==
  [][response'.op = "RemoveKey" =>
       IF StatusOf(keys, response'.hash) = "new"
         THEN KeyRows(keys', response'.hash) = {}
         ELSE keys' = keys /\ response'.level = "ERROR"]_vars

\* C6: every key first appears with status 'new', and every later change of
\* its status is new->active, active->inactive or inactive->active.
C6_KeyLifecycle ==
  [][\A h \in UrlHashes :
       LET before == StatusOf(keys, h)
           after  == StatusOf(keys', h)
       IN  /\ (before = "absent" /\ after # "absent") => after = "new"
           /\ (before # "absent" /\ after # "absent" /\ before # after) =>
                 <<before, after>> \in {<<"new", "active">>, <<"active", "inactive">>,
                                        <<"inactive", "active">>}]_vars

\* C7: each stored key's identifier is the hash of its current public-key
\* text, and no two rows share an identifier.
C7_KeyIdentifier ==
  /\ \A k \in keys : k.hash = SHA256_hexdigest(k.public_key)
  /\ \A k1, k2 \in keys : k1.hash = k2.hash => k1 = k2

\* A registry holding two keys, one of them just re-saved by ModifyKey.
C7_Witness ==
  /\ response.op = "ModifyKey" /\ response.level = "SUCCESS"
  /\ Cardinality(keys) = 2
  /\ \E k \in keys : k.hash = response.hash /\ k.current_status = "inactive"

\* C10: a key that has ever had status 'active' or 'inactive' is never removed
\* from the registry.
C10_ApprovedNeverRemoved ==
  \A h \in everApproved : KeyRows(keys, h) # {}

====
